---- MODULE Spec2Model ----
(***************************************************************************)
(* A model of the relay of backend/ada.py and backend/server.py.           *)
(*                                                                         *)
(* AdaAgent (ada.py) holds one field that changes, self.session.  Its     *)
(* connect() is an async generator: calling it runs nothing, every        *)
(* __anext__ of the consumer runs the body up to the next await/yield.    *)
(* send_frame() is a coroutine with one await, the session's send.        *)
(* The Socket Gateway (server.py) is four event handlers; two print a     *)
(* line, two are `pass`.                                                   *)
(*                                                                         *)
(* The remote endpoint and the socket.io server are the environment: the  *)
(* remote opens or refuses a session, delivers messages, ends or breaks   *)
(* the stream, accepts or breaks a send; socket.io dispatches connect,    *)
(* the client's events, then disconnect, for every client.                *)
(***************************************************************************)
EXTENDS Integers, Sequences, FiniteSets

\* ------------------------------------------------------------------ bounds
MaxCalls   == 3    \* calls made on the one AdaAgent instance, connect() and send_frame() together
MaxInbound == 2    \* messages the remote delivers, over all sessions
MaxClients == 2    \* socket clients
MaxEvents  == 1    \* vision_frame / voice_input events per client, each

Gens    == 1..MaxCalls
Tasks   == 1..MaxCalls
Clients == 1..MaxClients
\* inbound AI messages are opaque to the adapter: the k-th message the remote
\* delivers on session s is named by the pair <<s, k>>
Msg(s, k) == <<s, k>>
\* frame payloads: byte strings; <<255, 216>> is the JPEG start marker
Payloads == {<<255, 216>>, <<>>}

\* self.session = None: no session object (sessions are numbered from 1)
None == 0

VARIABLES
  \* ---- AdaAgent
  session,     \* self.session: None or the session (named by the generator that opened it)
  gen,         \* position of each connect() generator
  live,        \* each session: "none" (not opened), "open", "closed"
  recvd,       \* messages the session's iterator has delivered, in order
  out,         \* messages the generator has yielded to its consumer, in order
  result,      \* outcome of the consumer's last __anext__ on the generator
  opened,      \* number of sessions the generator has opened
  fault,       \* a failure was raised inside the generator's body
  again,       \* the generator was advanced after it had finished
  task,        \* position of each send_frame() call
  handle,      \* the session object a send_frame() call passed to send
  frame,       \* the frame_data argument of each send_frame() call
  openAtCall,  \* whether some session was open when send_frame() was called
  txFault,     \* the session's send raised inside a send_frame() call
  sent,        \* messages transmitted to the remote, in order
  \* ---- Socket Gateway
  client,      \* socket.io's view of each client: "new", "connected", "gone"
  log,         \* lines printed by the gateway
  frames,      \* vision_frame events dispatched per client
  voice,       \* voice_input events dispatched per client
  forwarded,   \* send_frame() calls the gateway made per client
  emitted      \* events the gateway emitted to clients

adapterVars == <<session, gen, live, recvd, out, result, opened, fault, again,
                 task, handle, frame, openAtCall, txFault, sent>>
gatewayVars == <<client, log, frames, voice, forwarded, emitted>>
vars == <<session, gen, live, recvd, out, result, opened, fault, again,
          task, handle, frame, openAtCall, txFault, sent,
          client, log, frames, voice, forwarded, emitted>>

\* ------------------------------------------------------------ pure helpers
IsOpen(s) == s # None /\ live[s] = "open"
OpenSessions == {s \in Gens : live[s] = "open"}
OpenCount == Cardinality(OpenSessions)

\* calls made so far on the AdaAgent, and messages delivered so far
Calls == Cardinality({g \in Gens : gen[g] # "uncalled"}) + Cardinality({t \in Tasks : task[t] # "idle"})
RECURSIVE DeliveredUpTo(_)
DeliveredUpTo(g) == IF g = 0 THEN 0 ELSE Len(recvd[g]) + DeliveredUpTo(g - 1)
Delivered == DeliveredUpTo(MaxCalls)

\* `if self.session:` -- None is falsy, a session object is truthy
Truthy(h) == h # None

\* types.Blob(data=frame_data, mime_type="image/jpeg")
BlobBadMime(frame_data) == [data |-> frame_data, mime_type |-> "image/png"]
Blob(frame_data) == [data |-> frame_data, mime_type |-> "image/jpeg"]

\* types.LiveClientRealtimeInput(media_chunks=[Blob])
LiveClientRealtimeInput(frame_data) == [media_chunks |-> <<Blob(frame_data)>>]

\* ------------------------------------------------------------------- Init
Init ==
  /\ session = None
  /\ gen = [g \in Gens |-> "uncalled"]
  /\ live = [g \in Gens |-> "none"]
  /\ recvd = [g \in Gens |-> <<>>]
  /\ out = [g \in Gens |-> <<>>]
  /\ result = [g \in Gens |-> "none"]
  /\ opened = [g \in Gens |-> 0]
  /\ fault = [g \in Gens |-> FALSE]
  /\ again = [g \in Gens |-> FALSE]
  /\ task = [t \in Tasks |-> "idle"]
  /\ handle = [t \in Tasks |-> None]
  /\ frame = [t \in Tasks |-> <<>>]
  /\ openAtCall = [t \in Tasks |-> FALSE]
  /\ txFault = [t \in Tasks |-> FALSE]
  /\ sent = <<>>
  /\ client = [c \in Clients |-> "new"]
  /\ log = <<>>
  /\ frames = [c \in Clients |-> 0]
  /\ voice = [c \in Clients |-> 0]
  /\ forwarded = [c \in Clients |-> 0]
  /\ emitted = <<>>

\* ------------------------------------------------- AdaAgent.connect (15-20)
\* connect() is called: an async generator object is made, no line of the body runs.
Connect(g) ==
  /\ gen[g] = "uncalled"
  /\ \A h \in Gens : h < g => gen[h] # "uncalled"
  /\ Calls < MaxCalls
  /\ gen' = [gen EXCEPT ![g] = "created"]
  /\ UNCHANGED <<session, live, recvd, out, result, opened, fault, again,
                 task, handle, frame, openAtCall, txFault, sent>>
  /\ UNCHANGED gatewayVars

\* First __anext__: the body runs to the await of live.connect(...).__aenter__().
AnextStart(g) ==
  /\ gen[g] = "created"
  /\ gen' = [gen EXCEPT ![g] = "opening"]
  /\ result' = [result EXCEPT ![g] = "pending"]
  /\ UNCHANGED <<session, live, recvd, out, opened, fault, again,
                 task, handle, frame, openAtCall, txFault, sent>>
  /\ UNCHANGED gatewayVars

\* The remote accepts: `as session`, self.session = session, then the first
\* await of the session's iterator; no await lies between the three.
OpenOk(g) ==
  /\ gen[g] = "opening"
  /\ live' = [live EXCEPT ![g] = "open"]
  /\ opened' = [opened EXCEPT ![g] = @ + 1]
  /\ session' = g
  /\ gen' = [gen EXCEPT ![g] = "receiving"]
  /\ UNCHANGED <<recvd, out, result, fault, again,
                 task, handle, frame, openAtCall, txFault, sent>>
  /\ UNCHANGED gatewayVars

\* Opening fails: nothing catches it, the exception leaves the generator.
OpenFail(g) ==
  /\ gen[g] = "opening"
  /\ fault' = [fault EXCEPT ![g] = TRUE]
  /\ gen' = [gen EXCEPT ![g] = "failed"]
  /\ result' = [result EXCEPT ![g] = "error"]
  /\ UNCHANGED <<session, live, recvd, out, opened, again,
                 task, handle, frame, openAtCall, txFault, sent>>
  /\ UNCHANGED gatewayVars

\* `yield message`
Yield(o, message) == Append(o, message)

\* `async for message in session: yield message` -- the session's iterator
\* delivers its next message and the generator yields it.
Receive(g) ==
  /\ gen[g] = "receiving"
  /\ Delivered < MaxInbound
  /\ LET message == Msg(g, Len(recvd[g]) + 1) IN
       /\ recvd' = [recvd EXCEPT ![g] = Append(@, message)]
       /\ out' = [out EXCEPT ![g] = Yield(@, message)]
       /\ result' = [result EXCEPT ![g] = message]
  /\ gen' = [gen EXCEPT ![g] = "yielded"]
  /\ UNCHANGED <<session, live, opened, fault, again,
                 task, handle, frame, openAtCall, txFault, sent>>
  /\ UNCHANGED gatewayVars

\* The consumer asks for the next item: the body resumes after the yield and
\* awaits the session's iterator again.
AnextResume(g) ==
  /\ gen[g] = "yielded"
  /\ gen' = [gen EXCEPT ![g] = "receiving"]
  /\ result' = [result EXCEPT ![g] = "pending"]
  /\ UNCHANGED <<session, live, recvd, out, opened, fault, again,
                 task, handle, frame, openAtCall, txFault, sent>>
  /\ UNCHANGED gatewayVars

\* The session's stream ends: the loop ends, `async with` closes the session,
\* the generator is exhausted.  self.session is not assigned.
StreamEnd(g) ==
  /\ gen[g] = "receiving"
  /\ live' = [live EXCEPT ![g] = "closed"]
  /\ gen' = [gen EXCEPT ![g] = "done"]
  /\ result' = [result EXCEPT ![g] = "stop"]
  /\ UNCHANGED <<session, recvd, out, opened, fault, again,
                 task, handle, frame, openAtCall, txFault, sent>>
  /\ UNCHANGED gatewayVars

\* (variant) a receive failure caught inside the generator, which then ends
\* as if the stream had ended
RecvFailSwallowed(g) ==
  /\ gen[g] = "receiving"
  /\ fault' = [fault EXCEPT ![g] = TRUE]
  /\ live' = [live EXCEPT ![g] = "closed"]
  /\ gen' = [gen EXCEPT ![g] = "done"]
  /\ result' = [result EXCEPT ![g] = "stop"]
  /\ UNCHANGED <<session, recvd, out, opened, again,
                 task, handle, frame, openAtCall, txFault, sent>>
  /\ UNCHANGED gatewayVars

\* Receiving fails: `async with` closes the session and the exception leaves
\* the generator.
RecvFail(g) ==
  /\ gen[g] = "receiving"
  /\ fault' = [fault EXCEPT ![g] = TRUE]
  /\ live' = [live EXCEPT ![g] = "closed"]
  /\ gen' = [gen EXCEPT ![g] = "failed"]
  /\ result' = [result EXCEPT ![g] = "error"]
  /\ UNCHANGED <<session, recvd, out, opened, again,
                 task, handle, frame, openAtCall, txFault, sent>>
  /\ UNCHANGED gatewayVars

\* The consumer closes the generator (aclose, or the runtime finalising it):
\* GeneratorExit at the yield leaves `async with`, which closes the session;
\* a generator that never started just finishes.
Aclose(g) ==
  /\ gen[g] \in {"created", "yielded"}
  /\ live' = [live EXCEPT ![g] = IF gen[g] = "yielded" THEN "closed" ELSE @]
  /\ gen' = [gen EXCEPT ![g] = "done"]
  /\ UNCHANGED <<session, recvd, out, result, opened, fault, again,
                 task, handle, frame, openAtCall, txFault, sent>>
  /\ UNCHANGED gatewayVars

\* (variant) a finished generator that runs its body again when advanced
AnextRestarts(g) ==
  /\ gen[g] \in {"done", "failed"}
  /\ again' = [again EXCEPT ![g] = TRUE]
  /\ gen' = [gen EXCEPT ![g] = "opening"]
  /\ result' = [result EXCEPT ![g] = "pending"]
  /\ UNCHANGED <<session, live, recvd, out, opened, fault,
                 task, handle, frame, openAtCall, txFault, sent>>
  /\ UNCHANGED gatewayVars

\* __anext__ on a generator that has finished (returned or raised):
\* StopAsyncIteration, the body does not run again.
AnextExhausted(g) ==
  /\ gen[g] \in {"done", "failed"}
  /\ again' = [again EXCEPT ![g] = TRUE]
  /\ result' = [result EXCEPT ![g] = "stop"]
  /\ UNCHANGED <<session, gen, live, recvd, out, opened, fault,
                 task, handle, frame, openAtCall, txFault, sent>>
  /\ UNCHANGED gatewayVars

\* ---------------------------------------------- AdaAgent.send_frame (22-26)
\* (variant) send_frame without the test of self.session
SendFrameCallUnchecked(t, frame_data) ==
  /\ task[t] = "idle"
  /\ \A u \in Tasks : u < t => task[u] # "idle"
  /\ Calls < MaxCalls
  /\ frame' = [frame EXCEPT ![t] = frame_data]
  /\ openAtCall' = [openAtCall EXCEPT ![t] = OpenCount > 0]
  /\ handle' = [handle EXCEPT ![t] = session]
  /\ task' = [task EXCEPT ![t] = "sending"]
  /\ UNCHANGED <<session, gen, live, recvd, out, result, opened, fault, again,
                 txFault, sent>>
  /\ UNCHANGED gatewayVars

\* send_frame(frame_data) is called and runs to its await: the test of
\* self.session, the building of the message and the call of send.
SendFrameCall(t, frame_data) ==
  /\ task[t] = "idle"
  /\ \A u \in Tasks : u < t => task[u] # "idle"
  /\ Calls < MaxCalls
  /\ frame' = [frame EXCEPT ![t] = frame_data]
  /\ openAtCall' = [openAtCall EXCEPT ![t] = OpenCount > 0]
  /\ IF Truthy(session)
       THEN /\ handle' = [handle EXCEPT ![t] = session]
            /\ task' = [task EXCEPT ![t] = "sending"]
       ELSE /\ handle' = handle
            /\ task' = [task EXCEPT ![t] = "returned"]
  /\ UNCHANGED <<session, gen, live, recvd, out, result, opened, fault, again,
                 txFault, sent>>
  /\ UNCHANGED gatewayVars

\* The send completes on an open session: the message is transmitted and
\* send_frame returns.
SendOk(t) ==
  /\ task[t] = "sending"
  /\ IsOpen(handle[t])
  /\ sent' = Append(sent, [on |-> handle[t], by |-> t,
                           input |-> LiveClientRealtimeInput(frame[t])])
  /\ task' = [task EXCEPT ![t] = "returned"]
  /\ UNCHANGED <<session, gen, live, recvd, out, result, opened, fault, again,
                 handle, frame, openAtCall, txFault>>
  /\ UNCHANGED gatewayVars

\* The send raises (the transport broke, or the session is closed): nothing
\* catches it, send_frame raises to its caller.
SendFail(t) ==
  /\ task[t] = "sending"
  /\ txFault' = [txFault EXCEPT ![t] = TRUE]
  /\ task' = [task EXCEPT ![t] = "raised"]
  /\ UNCHANGED <<session, gen, live, recvd, out, result, opened, fault, again,
                 handle, frame, openAtCall, sent>>
  /\ UNCHANGED gatewayVars

\* ------------------------------------------------------- server.py (22-39)
\* (variant) a connect handler that opens an AI session for the client and
\* keeps it in self.session
GwConnectOpensSession(sid) ==
  /\ client[sid] = "new"
  /\ \A c \in Clients : c < sid => client[c] # "new"
  /\ client' = [client EXCEPT ![sid] = "connected"]
  /\ log' = Append(log, [line |-> "Neural Link Established", sid |-> sid])
  /\ live' = [live EXCEPT ![MaxCalls] = "open"]
  /\ session' = MaxCalls
  /\ UNCHANGED <<frames, voice, forwarded, emitted>>
  /\ UNCHANGED <<gen, recvd, out, result, opened, fault, again,
                 task, handle, frame, openAtCall, txFault, sent>>

\* connect(sid, environ): one print
GwConnect(sid) ==
  /\ client[sid] = "new"
  /\ \A c \in Clients : c < sid => client[c] # "new"
  /\ client' = [client EXCEPT ![sid] = "connected"]
  /\ log' = Append(log, [line |-> "Neural Link Established", sid |-> sid])
  /\ UNCHANGED <<frames, voice, forwarded, emitted>>
  /\ UNCHANGED adapterVars

\* (variant) a disconnect handler that prints nothing
GwDisconnectSilent(sid) ==
  /\ client[sid] = "connected"
  /\ client' = [client EXCEPT ![sid] = "gone"]
  /\ UNCHANGED <<log, frames, voice, forwarded, emitted>>
  /\ UNCHANGED adapterVars

\* disconnect(sid): one print
GwDisconnect(sid) ==
  /\ client[sid] = "connected"
  /\ client' = [client EXCEPT ![sid] = "gone"]
  /\ log' = Append(log, [line |-> "Neural Link Severed", sid |-> sid])
  /\ UNCHANGED <<frames, voice, forwarded, emitted>>
  /\ UNCHANGED adapterVars

\* (variant) a vision_frame handler that passes the frame to send_frame
VisionFrameForwards(sid, data) ==
  /\ client[sid] = "connected"
  /\ frames[sid] < MaxEvents
  /\ frames' = [frames EXCEPT ![sid] = @ + 1]
  /\ forwarded' = [forwarded EXCEPT ![sid] = @ + 1]
  /\ sent' = IF IsOpen(session)
               THEN Append(sent, [on |-> session, by |-> 0,
                                  input |-> LiveClientRealtimeInput(data)])
               ELSE sent
  /\ UNCHANGED <<client, log, voice, emitted>>
  /\ UNCHANGED <<session, gen, live, recvd, out, result, opened, fault, again,
                 task, handle, frame, openAtCall, txFault>>

\* vision_frame(sid, data): pass
VisionFrame(sid, data) ==
  /\ client[sid] = "connected"
  /\ frames[sid] < MaxEvents
  /\ frames' = [frames EXCEPT ![sid] = @ + 1]
  /\ UNCHANGED <<client, log, voice, forwarded, emitted>>
  /\ UNCHANGED adapterVars

\* voice_input(sid, data): pass
VoiceInput(sid, data) ==
  /\ client[sid] = "connected"
  /\ voice[sid] < MaxEvents
  /\ voice' = [voice EXCEPT ![sid] = @ + 1]
  /\ UNCHANGED <<client, log, frames, forwarded, emitted>>
  /\ UNCHANGED adapterVars

\* ------------------------------------------------------------------- Next
NextAdapter ==
  \/ \E g \in Gens : Connect(g)
  \/ \E g \in Gens : AnextStart(g)
  \/ \E g \in Gens : OpenOk(g)
  \/ \E g \in Gens : OpenFail(g)
  \/ \E g \in Gens : Receive(g)
  \/ \E g \in Gens : AnextResume(g)
  \/ \E g \in Gens : StreamEnd(g)
  \/ \E g \in Gens : RecvFail(g)
  \/ \E g \in Gens : Aclose(g)
  \/ \E g \in Gens : AnextExhausted(g)
  \/ \E t \in Tasks, d \in Payloads : SendFrameCall(t, d)
  \/ \E t \in Tasks : SendOk(t)
  \/ \E t \in Tasks : SendFail(t)

NextGateway ==
  \/ \E c \in Clients : GwConnect(c)
  \/ \E c \in Clients : GwDisconnect(c)
  \/ \E c \in Clients, d \in Payloads : VisionFrame(c, d)
  \/ \E c \in Clients, d \in Payloads : VoiceInput(c, d)

\* One AI session opened and ended beside the gateway (server.py never
\* touches the AdaAgent, so its handlers are checked against every position
\* of that session).
NextLink ==
  \/ Connect(1)
  \/ AnextStart(1)
  \/ OpenOk(1)
  \/ StreamEnd(1)

Next == NextAdapter \/ NextGateway

\* The whole relay; its two halves share no state, and are explored apart:
Spec == Init /\ [][Next]_vars
\* the AdaAgent with its consumers, callers and the remote endpoint,
SpecAdapter == Init /\ [][NextAdapter]_vars
\* the gateway with its clients, beside one AI session.
SpecGateway == Init /\ [][NextGateway \/ NextLink]_vars

\* ================================================================== claims

\* C1: at most one AI session of the AdaAgent instance is open at any time,
\* whatever connect() calls were made and consumed.
C1_AtMostOneSession == OpenCount <= 1

\* C2: a send_frame call made while no AI session is open finishes without
\* raising and without transmitting anything.
C2_NoSessionNoSend ==
  \A t \in Tasks :
    (task[t] \in {"returned", "raised"} /\ ~openAtCall[t]) =>
      /\ task[t] = "returned"
      /\ \A i \in 1..Len(sent) : sent[i].by # t

\* C3: self.session is non-empty only while the session it names is open (so
\* no send_frame transmits on a session that has closed).
C3_HandleOnlyWhileOpen == session # None => live[session] = "open"

\* C4: every send_frame call made while a session is open, and whose
\* transmission completes, has transmitted exactly one message, on the session
\* it found in self.session, carrying exactly one chunk of MIME type image/jpeg
\* whose data is the frame_data it was given; and there are as many
\* transmissions as such calls, one per call.
SentBy(t) == {i \in 1..Len(sent) : sent[i].by = t}
C5_NoSessionLeak ==
  [][(\E c \in Clients : client'[c] # client[c]) => OpenSessions' = OpenSessions]_vars
\* a client connected and at once disconnected while an AI session was open
C5_Witness ==
  /\ OpenCount = 1
  /\ \E c \in Clients, i \in 1..Len(log) :
       /\ i < Len(log)
       /\ log[i] = [line |-> "Neural Link Established", sid |-> c]
       /\ log[i + 1] = [line |-> "Neural Link Severed", sid |-> c]
       /\ frames[c] = 0 /\ voice[c] = 0

\* C6: a vision_frame or voice_input event changes nothing of the AdaAgent
\* (no send_frame call, no transmission, self.session as it was) and nothing
\* of the gateway (no line, nothing emitted, nothing forwarded).
C6_FrameHandlersNoOp ==
  [][(frames' # frames \/ voice' # voice) =>
       (UNCHANGED adapterVars /\ UNCHANGED <<client, log, forwarded, emitted>>)]_vars
\* a client has sent a frame and a voice chunk while an AI session was open
C6_Witness ==
  \E c \in Clients :
    /\ frames[c] > 0 /\ voice[c] > 0
    /\ IsOpen(session)
    /\ sent = <<>> /\ emitted = <<>> /\ forwarded[c] = 0

\* C7: a client that connected, sent k frames and disconnected has exactly one
\* connect line and one disconnect line in the log, the connect line first,
\* and at most one forwarded chunk per frame.
Lines(text, c) == {i \in 1..Len(log) : log[i] = [line |-> text, sid |-> c]}
C7_OneLineEach ==
  \A c \in Clients :
    /\ forwarded[c] <= frames[c]
    /\ client[c] = "new" =>
         Lines("Neural Link Established", c) = {} /\ Lines("Neural Link Severed", c) = {}
    /\ client[c] = "connected" =>
         /\ Cardinality(Lines("Neural Link Established", c)) = 1
         /\ Lines("Neural Link Severed", c) = {}
    /\ client[c] = "gone" =>
         /\ Cardinality(Lines("Neural Link Established", c)) = 1
         /\ Cardinality(Lines("Neural Link Severed", c)) = 1
         /\ \A i \in Lines("Neural Link Established", c), j \in Lines("Neural Link Severed", c) : i < j
\* a client went through connect, one frame, disconnect, with another
\* client's lines between its own
C7_Witness ==
  \E c \in Clients, d \in Clients :
    /\ c # d
    /\ client[c] = "gone" /\ frames[c] = 1
    /\ \E i \in Lines("Neural Link Established", c), j \in Lines("Neural Link Severed", c),
          k \in Lines("Neural Link Established", d) : i < k /\ k < j

\* C8: the generator of connect() yields the messages of the one session it
\* opened, each once and in the session's order; it yields only while its
\* consumer is waiting for the next item; once finished it stays finished,
\* yields nothing more and opens no session.
C8_StreamState ==
  \A g \in Gens :
    /\ out[g] = recvd[g]
    /\ \A k \in 1..Len(out[g]) : out[g][k] = Msg(g, k)
    /\ opened[g] <= 1
    /\ gen[g] \in {"done", "failed"} => live[g] # "open"
C8_StreamStep ==
  \A g \in Gens :
    /\ out'[g] # out[g] => gen[g] = "receiving" /\ result[g] = "pending"
    /\ gen[g] \in {"done", "failed"} =>
         gen'[g] = gen[g] /\ out'[g] = out[g] /\ opened'[g] = opened[g] /\ live'[g] = live[g]
C8_GeneratorStream == []C8_StreamState /\ [][C8_StreamStep]_vars
\* a generator yielded two messages, its stream ended, and it was advanced again
C8_Witness ==
  \E g \in Gens :
    gen[g] = "done" /\ Len(out[g]) = 2 /\ again[g] /\ result[g] = "stop" /\ live[g] = "closed"

\* C9: a failure of the opening or of a receive leaves the generator failed,
\* with the error (then end-of-iteration) as what its consumer gets, no further
\* message, no second session; a failure of the send leaves send_frame raised
\* to its caller with nothing transmitted.
C9_FailState ==
  /\ \A g \in Gens :
       fault[g] =>
         /\ gen[g] = "failed"
         /\ result[g] = IF again[g] THEN "stop" ELSE "error"
         /\ opened[g] <= 1
         /\ live[g] # "open"
  /\ \A t \in Tasks :
       txFault[t] => task[t] = "raised" /\ SentBy(t) = {}
C9_FailStep ==
  \A g \in Gens :
    fault[g] => out'[g] = out[g] /\ opened'[g] = opened[g] /\ live'[g] = live[g]
C9_FailuresPropagate == []C9_FailState /\ [][C9_FailStep]_vars
\* a receive failed after a message had been yielded, and a send failed on an open session
C9_Witness ==
  /\ \E g \in Gens : fault[g] /\ Len(out[g]) = 1 /\ result[g] = "error"
  /\ \E t \in Tasks : txFault[t] /\ IsOpen(handle[t])

\* C10 (as stated): no send_frame is suspended in its transmission while the
\* consumer is suspended in a receive on the same session, and the handle a
\* suspended send_frame uses is still the one in self.session.
C10_OnePathAtATime ==
  \A t \in Tasks :
    task[t] = "sending" =>
      /\ gen[handle[t]] # "receiving"
      /\ session = handle[t]

\* C10 (amended): send_frame tests self.session and starts its transmission
\* in one step, with no await between, so the handle it transmits on is the
\* one self.session held at the test and is never None.
C10_CheckStep ==
  \A t \in Tasks :
    (task[t] = "idle" /\ task'[t] = "sending") => (session # None /\ handle'[t] = session)
C10_CheckState ==
  \A t \in Tasks : task[t] = "sending" => handle[t] # None
C10_CheckAndSendAtomic == []C10_CheckState /\ [][C10_CheckStep]_vars
\* a send_frame is suspended in its transmission while the consumer is
\* suspended in a receive on the same session and a second connect() has
\* replaced self.session
C10_Witness ==
  \E t \in Tasks :
    /\ task[t] = "sending"
    /\ gen[handle[t]] = "receiving"
    /\ session # handle[t]
====
